---------------------------- MODULE Spec2Model ----------------------------
(***************************************************************************)
(* A model of app/postman-performance-test.js: the simulated-user          *)
(* scheduler (one deadline timer, one stagger timer and one repeating      *)
(* timer per user), the execution adapter (runCollection / runCallback)    *)
(* and the metrics aggregator (the runs map and its summary functions).    *)
(*                                                                         *)
(* Time is in milliseconds and advances only when a timer fires.  Timers   *)
(* fire in order of expiry; timers that expire together fire in the order  *)
(* in which they were armed, so the deadline timer (armed first, line 89)  *)
(* precedes every user timer of the same expiry.  A completion callback    *)
(* of the execution engine may run between any two timer callbacks.        *)
(***************************************************************************)
EXTENDS Integers, Sequences, FiniteSets, TLC

\* ------------------------------------------------------------------ bounds

MaxUsers == 3
MaxTotalSec == 7
\* users * (ticks a user can issue before the deadline) * (items per run)
MaxLoad == 4
\* Math.random() is a multiple of 1/RandomScale in [0, 1)
RandomScale == 65536
\* runs of the single user in the histories InitReport draws
MaxReportRuns == 5

\* ---------------------------------------------------------- program inputs

MsPerSecond == 1000

SuccessCode == 200

NoTimer == -1

\* --interval, in seconds
IntervalSeconds == { 1, 2 }

\* collection exports: the ordered item names of the file
Collections == { <<"Create">>, <<"Get", "Create">>, <<"Get", "Get">> }

\* the data file's "requests" array
NoRequests == << >>

MixedBodies ==
    << [name |-> "Update", bodies |-> << [id |-> 3] >>],
       [name |-> "Create", bodies |-> << [id |-> 1], [id |-> 2] >>],
       [name |-> "Create", bodies |-> << [id |-> 4] >>] >>

DataFiles == { NoRequests, MixedBodies }

\* what the target service answers to one request: status code and latency
Responses == { [code |-> 200, responseTime |-> 10], [code |-> 404, responseTime |-> 11] }

ReportResponses ==
    { [code |-> 200, responseTime |-> 10], [code |-> 200, responseTime |-> 20],
      [code |-> 404, responseTime |-> 30], [code |-> 500, responseTime |-> 11],
      [code |-> 201, responseTime |-> 11] }

\* an execution entry whose request got no response (run.response undefined)
NoResponse == [code |-> -1, responseTime |-> -1]

VARIABLES
    opts,            \* program.opts(): file, users, interval, total, stagger, report, data
    fileSystem,      \* what require(file) and require(data) find
    pc,              \* "main" | "running" | "exited"
    exitCode,        \* -1 while the process lives
    now,             \* milliseconds since the main script ran
    requests,        \* line 60
    runs,            \* line 74: a Map, kept in key insertion order
    executionCount,  \* line 75
    deadlineTimer,   \* expiry of setTimeout(stopExecution, totalTime), or NoTimer
    staggerBy,       \* per user, the delay drawn at line 94
    userTimers,      \* per user, its armed timer: [kind, at]
    inFlight,        \* executions handed to newman.run whose callback has not run
    ticks,           \* history: one entry per runCollection call
    appendLog,       \* history: one entry per addRunSummary call
    completions,     \* history: one entry per runCallback call
    deadlineFired,   \* history: stopExecution has run
    reportOut        \* history: the sections displayResults printed, one list per call

vars == << opts, fileSystem, pc, exitCode, now, requests, runs, executionCount,
           deadlineTimer, staggerBy, userTimers, inFlight, ticks, appendLog,
           completions, deadlineFired, reportOut >>

\* ------------------------------------------------------------ lines 51-57

users == opts.users

interval == opts.interval * MsPerSecond

totalTime == opts.total * MsPerSecond

stagger == opts.stagger

report == opts.report

data == opts.data


\* ------------------------------------------------- the Map at lines 74, 271

MapHas(m, k) == \E i \in 1..Len(m) : m[i].key = k

MapIndex(m, k) == CHOOSE i \in 1..Len(m) : m[i].key = k

MapGet(m, k) == m[MapIndex(m, k)].value

MapSet(m, k, v) ==
    IF MapHas(m, k)
    THEN [m EXCEPT ![MapIndex(m, k)] = [key |-> k, value |-> v]]
    ELSE Append(m, [key |-> k, value |-> v])

\* -------------------------------------------------------- lines 235-251

addRunSummaryDropsOlder(store, runSummary) ==
    MapSet(store, runSummary.name,
           << [responseCode |-> runSummary.responseCode,
               responseTime |-> runSummary.responseTime] >>)

addRunSummary(store, runSummary) ==
    IF MapHas(store, runSummary.name)
    THEN LET currentRunSummary ==
                 Append(MapGet(store, runSummary.name),
                        [responseCode |-> runSummary.responseCode,
                         responseTime |-> runSummary.responseTime])
         IN  MapSet(store, runSummary.name, currentRunSummary)
    ELSE MapSet(store, runSummary.name,
                << [responseCode |-> runSummary.responseCode,
                    responseTime |-> runSummary.responseTime] >>)

\* -------------------------------------------------------- lines 215-233

\* the loop of runCallback stops at the first entry whose response is
\* undefined: reading run.response.code throws there
RECURSIVE HandledExecutions(_)
HandledExecutions(executions) ==
    IF executions = << >> \/ Head(executions).response = NoResponse
    THEN << >>
    ELSE << Head(executions) >> \o HandledExecutions(Tail(executions))

RunSummaryOf(run) ==
    [name |-> run.name,
     responseCode |-> run.response.code,
     responseTime |-> run.response.responseTime]

\* the entries of a run summary taken last to first
RECURSIVE AddRunSummariesReversed(_, _)
AddRunSummariesReversed(store, executions) ==
    IF executions = << >>
    THEN store
    ELSE addRunSummary(AddRunSummariesReversed(store, Tail(executions)),
                       RunSummaryOf(Head(executions)))

RECURSIVE AddRunSummaries(_, _)
AddRunSummaries(store, executions) ==
    IF executions = << >>
    THEN store
    ELSE AddRunSummaries(addRunSummary(store, RunSummaryOf(Head(executions))),
                         Tail(executions))

runCallbackSwallowsError(result) ==
    \E i \in 1..Len(result.executions) : result.executions[i].response = NoResponse

\* whether runCallback throws: a run-level error, or an entry with no response
runCallbackThrows(result) ==
    \/ result.error
    \/ \E i \in 1..Len(result.executions) : result.executions[i].response = NoResponse

\* the store after runCallback(error, summary)
runCallback(store, result) ==
    IF result.error
    THEN store
    ELSE AddRunSummaries(store, HandledExecutions(result.executions))

\* -------------------------------------------------------- lines 253-283

Min2(a, b) == IF a <= b THEN a ELSE b

Max2(a, b) == IF a >= b THEN a ELSE b

RECURSIVE getMinimumResponseTime(_)
getMinimumResponseTime(runSummaries) ==
    IF Len(runSummaries) = 1
    THEN runSummaries[1].responseTime
    ELSE Min2(runSummaries[1].responseTime, getMinimumResponseTime(Tail(runSummaries)))

RECURSIVE getMaximumResponseTime(_)
getMaximumResponseTime(runSummaries) ==
    IF Len(runSummaries) = 1
    THEN runSummaries[1].responseTime
    ELSE Max2(runSummaries[1].responseTime, getMaximumResponseTime(Tail(runSummaries)))

RECURSIVE TotalResponseTime(_)
TotalResponseTime(runSummaries) ==
    IF runSummaries = << >>
    THEN 0
    ELSE runSummaries[1].responseTime + TotalResponseTime(Tail(runSummaries))

MathRoundDown(num, den) == num \div den

\* Math.round of the quotient of two non-negative integers: halves go up
MathRound(num, den) == (2 * num + den) \div (2 * den)

getAverageResponseTime(runSummaries) ==
    MathRound(TotalResponseTime(runSummaries), Len(runSummaries))

RECURSIVE CountCodes(_, _)
CountCodes(responseCodeCounts, runSummaries) ==
    IF runSummaries = << >>
    THEN responseCodeCounts
    ELSE LET code == runSummaries[1].responseCode
             next == IF MapHas(responseCodeCounts, code)
                     THEN MapSet(responseCodeCounts, code,
                                 MapGet(responseCodeCounts, code) + 1)
                     ELSE MapSet(responseCodeCounts, code, 1)
         IN  CountCodes(next, Tail(runSummaries))

RECURSIVE CountCodesOnce(_, _)
CountCodesOnce(responseCodeCounts, runSummaries) ==
    IF runSummaries = << >>
    THEN responseCodeCounts
    ELSE CountCodesOnce(MapSet(responseCodeCounts, runSummaries[1].responseCode, 1),
                        Tail(runSummaries))

getResponseCodeCountsNoIncrement(runSummaries) == CountCodesOnce(<< >>, runSummaries)

getResponseCodeCounts(runSummaries) == CountCodes(<< >>, runSummaries)

\* -------------------------------------------------------- lines 122-145

CodeLineAny2xx(entry) ==
    [code |-> entry.key,
     count |-> entry.value,
     flag |-> IF entry.key \in 200..299 THEN "success" ELSE "error"]

CodeLine(entry) ==
    [code |-> entry.key,
     count |-> entry.value,
     flag |-> IF entry.key = SuccessCode THEN "success" ELSE "error"]

Section(entry) ==
    [name |-> entry.key,
     average |-> getAverageResponseTime(entry.value),
     minimum |-> getMinimumResponseTime(entry.value),
     maximum |-> getMaximumResponseTime(entry.value),
     codes |-> LET counts == getResponseCodeCounts(entry.value)
               IN  [i \in 1..Len(counts) |-> CodeLine(counts[i])]]

displayResults(store) == [i \in 1..Len(store) |-> Section(store[i])]


\* ---------------------------------------------------------- lines 92-99

\* Math.random() draws rnd / RandomScale: the least and the greatest value
RandomDraws == { 0, RandomScale - 1 }

StaggerDelayNoOffset(rnd) ==
    IF stagger THEN (rnd * interval) \div RandomScale ELSE 0

StaggerDelayIgnoresFlag(rnd) == ((rnd * interval) \div RandomScale) + 1

StaggerDelay(rnd) ==
    IF stagger THEN ((rnd * interval) \div RandomScale) + 1 ELSE 0

\* -------------------------------------------------------- lines 176-200

JSONStringify(body) == "{\"id\":" \o ToString(body.id) \o "}"

\* requests.find: the first entry of that name
FindRequest(name) ==
    LET hits == { j \in 1..Len(requests) : requests[j].name = name }
    IN  IF hits = {} THEN 0 ELSE CHOOSE j \in hits : \A k \in hits : j <= k

BodyIndexByCount(userNumber, bodyCount) == userNumber % bodyCount

BodyIndex(userNumber, bodyCount) == (userNumber - 1) % bodyCount

RECURSIVE EnvVarFrom(_, _, _)
EnvVarFrom(items, i, userNumber) ==
    IF i > Len(items)
    THEN << >>
    ELSE LET j == FindRequest(items[i])
         IN  IF j = 0
             THEN EnvVarFrom(items, i + 1, userNumber)
             ELSE LET bodies == requests[j].bodies
                      body == bodies[BodyIndex(userNumber, Len(bodies)) + 1]
                  IN  << [key |-> "requestBody" \o ToString(i),
                          value |-> JSONStringify(body)] >>
                      \o EnvVarFrom(items, i + 1, userNumber)

envVarConfig(items, userNumber) ==
    IF data # "" /\ Len(requests) > 0
    THEN EnvVarFrom(items, 1, userNumber)
    ELSE << >>

\* ---------------------------------------------------------------- timers

Armed(u) == userTimers[u].kind # "none"

FiresBefore(u, v) ==
    \/ userTimers[u].at < userTimers[v].at
    \/ userTimers[u].at = userTimers[v].at /\ u < v

UserTimerDue(u) ==
    /\ pc = "running"
    /\ Armed(u)
    /\ deadlineTimer # NoTimer => userTimers[u].at < deadlineTimer
    /\ \A v \in (1..users) \ {u} : Armed(v) => FiresBefore(u, v)

DeadlineDue ==
    /\ pc = "running"
    /\ deadlineTimer # NoTimer
    /\ \A v \in 1..users : Armed(v) => userTimers[v].at >= deadlineTimer

\* ------------------------------------------------------------------ Init

Configurations ==
    { o \in [file : {"./collection.json"}, users : 0..MaxUsers,
             interval : IntervalSeconds, total : 1..MaxTotalSec,
             stagger : BOOLEAN, report : BOOLEAN, data : {"", "./data.json"}] : TRUE }

FileSystems ==
    [collection : { [ok |-> FALSE, item |-> << >>] }
                    \cup { [ok |-> TRUE, item |-> c] : c \in Collections },
     data : { [ok |-> FALSE, requests |-> << >>] }
              \cup { [ok |-> TRUE, requests |-> d] : d \in DataFiles }]

\* ticks one user can issue before totalTime, at most
TicksPerUser(o) == (o.total + o.interval - 1) \div o.interval

Load(o, fs) == o.users * TicksPerUser(o) * Len(fs.collection.item)

Init ==
    /\ opts \in Configurations
    /\ fileSystem \in FileSystems
    /\ Load(opts, fileSystem) <= MaxLoad
    /\ opts.data = "" => fileSystem.data = [ok |-> FALSE, requests |-> << >>]
    /\ pc = "main"
    /\ exitCode = -1
    /\ now = 0
    /\ requests = << >>
    /\ runs = << >>
    /\ executionCount = 0
    /\ deadlineTimer = NoTimer
    /\ staggerBy = << >>
    /\ userTimers = << >>
    /\ inFlight = {}
    /\ ticks = << >>
    /\ appendLog = << >>
    /\ completions = << >>
    /\ deadlineFired = FALSE
    /\ reportOut = << >>

\* --------------------------------------- lines 59-99: the main script

\* the user loop run once too often (i <= users)
MainScriptOneMoreUser ==
    /\ pc = "main"
    /\ IF data # "" /\ ~fileSystem.data.ok
       THEN /\ pc' = "exited"
            /\ exitCode' = 1
            /\ UNCHANGED << requests, deadlineTimer, staggerBy, userTimers >>
       ELSE /\ requests' = IF data # "" THEN fileSystem.data.requests ELSE << >>
            /\ deadlineTimer' = now + totalTime
            /\ \E rnd \in [1..(users + 1) -> RandomDraws] :
                 /\ staggerBy' = [i \in 1..(users + 1) |-> StaggerDelay(rnd[i])]
                 /\ userTimers' = [i \in 1..(users + 1) |->
                                     [kind |-> "stagger", at |-> now + staggerBy'[i]]]
            /\ pc' = "running"
            /\ UNCHANGED exitCode
    /\ UNCHANGED << opts, fileSystem, now, runs, executionCount, inFlight, ticks,
                    appendLog, completions, deadlineFired, reportOut >>

\* the load error logged without process.exit(1)
MainScriptIgnoresLoadError ==
    /\ pc = "main"
    /\ requests' = IF data # "" /\ fileSystem.data.ok THEN fileSystem.data.requests ELSE << >>
    /\ deadlineTimer' = now + totalTime
    /\ \E rnd \in [1..users -> RandomDraws] :
         /\ staggerBy' = [i \in 1..users |-> StaggerDelay(rnd[i])]
         /\ userTimers' = [i \in 1..users |->
                             [kind |-> "stagger", at |-> now + staggerBy'[i]]]
    /\ pc' = "running"
    /\ UNCHANGED << opts, fileSystem, now, runs, executionCount, inFlight, ticks,
                    appendLog, completions, deadlineFired, reportOut, exitCode >>

MainScript ==
    /\ pc = "main"
    /\ IF data # "" /\ ~fileSystem.data.ok
       THEN /\ pc' = "exited"
            /\ exitCode' = 1
            /\ UNCHANGED << requests, deadlineTimer, staggerBy, userTimers >>
       ELSE /\ requests' = IF data # "" THEN fileSystem.data.requests ELSE << >>
            /\ deadlineTimer' = now + totalTime
            /\ \E rnd \in [1..users -> RandomDraws] :
                 /\ staggerBy' = [i \in 1..users |-> StaggerDelay(rnd[i])]
                 /\ userTimers' = [i \in 1..users |->
                                     [kind |-> "stagger", at |-> now + staggerBy'[i]]]
            /\ pc' = "running"
            /\ UNCHANGED exitCode
    /\ UNCHANGED << opts, fileSystem, now, runs, executionCount, inFlight, ticks,
                    appendLog, completions, deadlineFired, reportOut >>

\* ------------------------------------------------------- lines 147-213

\* runCollection(userNumber) called at time t: require(file) throws when the
\* collection cannot be loaded, after executionCount++
\* the execution counted only once the collection has loaded
RunCollectionCountsAfterLoad(userNumber, t) ==
    IF fileSystem.collection.ok
    THEN /\ executionCount' = executionCount + 1
         /\ inFlight' = inFlight \cup {executionCount'}
         /\ ticks' = Append(ticks,
               [user |-> userNumber, at |-> t, count |-> executionCount',
                envVar |-> envVarConfig(fileSystem.collection.item, userNumber)])
         /\ UNCHANGED << pc, exitCode >>
    ELSE /\ pc' = "exited"
         /\ exitCode' = 1
         /\ UNCHANGED << executionCount, inFlight, ticks >>

RunCollection(userNumber, t) ==
    /\ executionCount' = executionCount + 1
    /\ IF fileSystem.collection.ok
       THEN /\ inFlight' = inFlight \cup {executionCount'}
            /\ ticks' = Append(ticks,
                  [user |-> userNumber, at |-> t, count |-> executionCount',
                   envVar |-> envVarConfig(fileSystem.collection.item, userNumber)])
            /\ UNCHANGED << pc, exitCode >>
       ELSE /\ pc' = "exited"
            /\ exitCode' = 1
            /\ UNCHANGED << inFlight, ticks >>

\* ------------------------------------------------------- lines 96-110

initializeIntervalNoFirstRun(userNumber) ==
    /\ UserTimerDue(userNumber)
    /\ userTimers[userNumber].kind = "stagger"
    /\ now' = userTimers[userNumber].at
    /\ userTimers' = [userTimers EXCEPT ![userNumber] =
                        [kind |-> "interval", at |-> now' + interval]]
    /\ UNCHANGED << opts, fileSystem, pc, exitCode, requests, runs, executionCount,
                    deadlineTimer, staggerBy, inFlight, ticks, appendLog,
                    completions, deadlineFired, reportOut >>

initializeInterval(userNumber) ==
    /\ UserTimerDue(userNumber)
    /\ userTimers[userNumber].kind = "stagger"
    /\ now' = userTimers[userNumber].at
    /\ RunCollection(userNumber, now')
    /\ userTimers' = [userTimers EXCEPT ![userNumber] =
                        IF fileSystem.collection.ok
                        THEN [kind |-> "interval", at |-> now' + interval]
                        ELSE [kind |-> "none", at |-> 0]]
    /\ UNCHANGED << opts, fileSystem, requests, runs, deadlineTimer, staggerBy,
                    appendLog, completions, deadlineFired, reportOut >>

\* a tick held back while an execution of the user is in flight
IntervalTickWaits(userNumber) ==
    /\ UserTimerDue(userNumber)
    /\ userTimers[userNumber].kind = "interval"
    /\ \A c \in inFlight : ticks[c].user # userNumber
    /\ now' = userTimers[userNumber].at
    /\ RunCollection(userNumber, now')
    /\ userTimers' = [userTimers EXCEPT ![userNumber].at = now' + interval]
    /\ UNCHANGED << opts, fileSystem, requests, runs, deadlineTimer, staggerBy,
                    appendLog, completions, deadlineFired, reportOut >>

\* the repeating timer re-armed from the end of a run that took a millisecond
IntervalTickDrifts(userNumber) ==
    /\ UserTimerDue(userNumber)
    /\ userTimers[userNumber].kind = "interval"
    /\ now' = userTimers[userNumber].at
    /\ RunCollection(userNumber, now')
    /\ userTimers' = [userTimers EXCEPT ![userNumber].at = now' + interval + 1]
    /\ UNCHANGED << opts, fileSystem, requests, runs, deadlineTimer, staggerBy,
                    appendLog, completions, deadlineFired, reportOut >>

\* line 109: the repeating timer's callback
IntervalTick(userNumber) ==
    /\ UserTimerDue(userNumber)
    /\ userTimers[userNumber].kind = "interval"
    /\ now' = userTimers[userNumber].at
    /\ RunCollection(userNumber, now')
    /\ userTimers' = [userTimers EXCEPT ![userNumber].at = now' + interval]
    /\ UNCHANGED << opts, fileSystem, requests, runs, deadlineTimer, staggerBy,
                    appendLog, completions, deadlineFired, reportOut >>

\* ------------------------------------------------------- lines 112-145

\* what stopExecution leaves: both branches end in process.exit(0)
StopKeepsRunningAfterReport(rep, store) ==
    [pc |-> IF rep THEN "running" ELSE "exited",
     exitCode |-> IF rep THEN -1 ELSE 0,
     printed |-> IF rep THEN << displayResults(store) >> ELSE << >>]

StopReportsRegardless(rep, store) ==
    [pc |-> "exited", exitCode |-> 0, printed |-> << displayResults(store) >>]

StopOutcome(rep, store) ==
    [pc |-> "exited",
     exitCode |-> 0,
     printed |-> IF rep THEN << displayResults(store) >> ELSE << >>]

stopExecution ==
    /\ DeadlineDue
    /\ now' = deadlineTimer
    /\ deadlineTimer' = NoTimer
    /\ deadlineFired' = TRUE
    /\ LET out == StopOutcome(report, runs)
       IN  /\ pc' = out.pc
           /\ exitCode' = out.exitCode
           /\ reportOut' = reportOut \o out.printed
    /\ UNCHANGED << opts, fileSystem, requests, runs, executionCount, staggerBy,
                    userTimers, inFlight, ticks, appendLog, completions >>

\* ------------------------------------------------------- lines 215-233

\* what newman hands to the callback of a run of the collection
EngineResults(items, responses) ==
    { [error |-> TRUE, executions |-> << >>] }
    \cup { [error |-> FALSE,
            executions |-> [i \in 1..Len(items) |-> [name |-> items[i], response |-> r[i]]]]
           : r \in [1..Len(items) -> responses \cup {NoResponse}] }

LogEntries(count, executions) ==
    [i \in 1..Len(executions) |->
        [count |-> count, name |-> executions[i].name,
         responseCode |-> executions[i].response.code,
         responseTime |-> executions[i].response.responseTime]]

RunCallback(count) ==
    /\ pc = "running"
    /\ count \in inFlight
    /\ \E result \in EngineResults(fileSystem.collection.item, Responses) :
         /\ runs' = runCallback(runs, result)
         /\ appendLog' = IF result.error THEN appendLog
                         ELSE appendLog \o LogEntries(count, HandledExecutions(result.executions))
         /\ completions' = Append(completions, [count |-> count, result |-> result])
         /\ IF runCallbackThrows(result)
            THEN pc' = "exited" /\ exitCode' = 1
            ELSE UNCHANGED << pc, exitCode >>
    /\ inFlight' = inFlight \ {count}
    /\ UNCHANGED << opts, fileSystem, now, requests, executionCount, deadlineTimer,
                    staggerBy, userTimers, ticks, deadlineFired, reportOut >>

\* ------------------------------------------------------------------ Spec

Next ==
    \/ MainScript
    \/ \E u \in 1..users : initializeInterval(u)
    \/ \E u \in 1..users : IntervalTick(u)
    \/ stopExecution
    \/ \E c \in inFlight : RunCallback(c)

Spec == Init /\ [][Next]_vars


\* ---------------------------------------------------------- SpecReport
\* The summary functions on the store of a real history: one user, no
\* stagger, an interval of one second, n runs each completed before the
\* next tick, and the deadline (total = n seconds) about to fire with
\* --report given.

SuccessfulResults(items) ==
    { r \in EngineResults(items, ReportResponses) : ~runCallbackThrows(r) }

RECURSIVE StoreAfter(_, _)
StoreAfter(history, k) ==
    IF k = 0 THEN << >> ELSE runCallback(StoreAfter(history, k - 1), history[k])

RECURSIVE LogAfter(_, _)
LogAfter(history, k) ==
    IF k = 0 THEN << >>
    ELSE LogAfter(history, k - 1) \o LogEntries(k, HandledExecutions(history[k].executions))

InitReport ==
    \E items \in Collections, n \in 1..MaxReportRuns :
      /\ n * Len(items) <= MaxReportRuns
      /\ \E history \in [1..n -> SuccessfulResults(items)] :
           /\ opts = [file |-> "./collection.json", users |-> 1, interval |-> 1,
                      total |-> n, stagger |-> FALSE, report |-> TRUE, data |-> ""]
           /\ fileSystem = [collection |-> [ok |-> TRUE, item |-> items],
                            data |-> [ok |-> FALSE, requests |-> << >>]]
           /\ pc = "running"
           /\ exitCode = -1
           /\ now = (n - 1) * MsPerSecond
           /\ requests = << >>
           /\ runs = StoreAfter(history, n)
           /\ executionCount = n
           /\ deadlineTimer = n * MsPerSecond
           /\ staggerBy = << 0 >>
           /\ userTimers = << [kind |-> "interval", at |-> n * MsPerSecond] >>
           /\ inFlight = {}
           /\ ticks = [k \in 1..n |-> [user |-> 1, at |-> (k - 1) * MsPerSecond,
                                       count |-> k, envVar |-> << >>]]
           /\ appendLog = LogAfter(history, n)
           /\ completions = [k \in 1..n |-> [count |-> k, result |-> history[k]]]
           /\ deadlineFired = FALSE
           /\ reportOut = << >>

NextReport == stopExecution

SpecReport == InitReport /\ [][NextReport]_vars


\* ================================================================ claims

Names == { "Create", "Get" }

\* the records appended under a name, in the order of the addRunSummary calls
AppendedUnder(name) ==
    LET hits == SelectSeq(appendLog, LAMBDA e : e.name = name)
    IN  [i \in 1..Len(hits) |->
            [responseCode |-> hits[i].responseCode, responseTime |-> hits[i].responseTime]]

\* C1: whatever the interleaving of the completion callbacks, the sequence
\* stored under each request name is exactly the records appended with that
\* name (same length, nothing lost, duplicated or filed under another key),
\* and a name with no append has no key.
C1_StoreHoldsAppends ==
    /\ \A i, j \in 1..Len(runs) : runs[i].key = runs[j].key => i = j
    /\ \A i \in 1..Len(runs) : runs[i].key \in Names
    /\ \A name \in Names :
         IF AppendedUnder(name) = << >>
         THEN ~MapHas(runs, name)
         ELSE MapHas(runs, name) /\ MapGet(runs, name) = AppendedUnder(name)

\* two users' records under one name, appended against the order of issue,
\* with a second name in the store
C1_Witness ==
    /\ Len(runs) = 2
    /\ \E i, j \in 1..Len(appendLog) :
         /\ i < j
         /\ appendLog[i].name = appendLog[j].name
         /\ appendLog[i].count > appendLog[j].count
         /\ ticks[appendLog[i].count].user # ticks[appendLog[j].count].user

\* C2: once the deadline timer has fired no tick is issued for any user,
\* from a pending stagger timer or from a repeating timer, with or without
\* --report.
C2_NoTickAfterDeadline ==
    [][deadlineFired => (executionCount' = executionCount /\ ticks' = ticks
                         /\ inFlight' \subseteq inFlight)]_vars

\* the deadline has fired with --report while one user's stagger timer and
\* another user's repeating timer are still armed
C2_Witness ==
    /\ deadlineFired
    /\ report
    /\ \E u, v \in 1..users :
         userTimers[u].kind = "stagger" /\ userTimers[v].kind = "interval"

TickTimes(u) ==
    LET mine == SelectSeq(ticks, LAMBDA t : t.user = u)
    IN  [i \in 1..Len(mine) |-> mine[i].at]

\* C3: without --stagger the i-th tick of a user is at (i - 1) * interval,
\* strictly before totalTime, and when the deadline fires the user has issued
\* one tick for every multiple of interval below totalTime; with interval and
\* total in the ratio 2 : 7 (1000 ms : 3500 ms) that is 4 ticks.
C3_TicksOnTheInterval ==
    ~stagger =>
      \A u \in 1..users :
        /\ \A i \in 1..Len(TickTimes(u)) :
             TickTimes(u)[i] = (i - 1) * interval /\ TickTimes(u)[i] < totalTime
        /\ deadlineFired =>
             /\ \A k \in 0..opts.total :
                  k * interval < totalTime => \E i \in 1..Len(TickTimes(u)) : TickTimes(u)[i] = k * interval
             /\ (2 * totalTime = 7 * interval) => Len(TickTimes(u)) = 4

C3_Witness ==
    /\ ~stagger
    /\ users = 1
    /\ 2 * totalTime = 7 * interval
    /\ deadlineFired
    /\ TickTimes(1) = << 0, interval, 2 * interval, 3 * interval >>

\* C4: a run-level error reported to a completion callback ends the process
\* there: it is the last callback, no tick is issued after it, nothing of
\* that run is appended, the deadline handler never runs and no summary is
\* printed, whatever --report says.
C4_EngineErrorIsFatal ==
    [][\A i \in 1..Len(completions') :
         completions'[i].result.error =>
           /\ i = Len(completions')
           /\ pc' = "exited"
           /\ exitCode' # 0
           /\ executionCount' = executionCount
           /\ ticks' = ticks
           /\ \A k \in 1..Len(appendLog') : appendLog'[k].count # completions'[i].count
           /\ ~deadlineFired'
           /\ reportOut' = << >>]_vars

\* an error with --report given, records in the store, another execution in
\* flight and a timer armed
C4_Witness ==
    /\ \E i \in 1..Len(completions) : completions[i].result.error
    /\ report
    /\ runs # << >>
    /\ inFlight # {}
    /\ \E u \in 1..users : Armed(u)

\* C5 as stated: executions in flight at the deadline still complete, so the
\* process does not end with an execution whose callback never ran.
C5_InFlightStillCompletes ==
    (deadlineFired /\ pc = "exited") => inFlight = {}

\* C5 as amended: stopExecution ends the process in both branches, so an
\* execution in flight when the deadline fires is abandoned: its callback can
\* never run and the store stays as it was at the deadline.
C5_InFlightAbandoned ==
    deadlineFired =>
      /\ pc = "exited"
      /\ exitCode = 0
      /\ \A c \in inFlight : ~ENABLED RunCallback(c)

C5_Witness ==
    /\ deadlineFired
    /\ inFlight # {}
    /\ runs # << >>

\* C6: with --stagger every user's delay is an integer from 1 to interval
\* (milliseconds), one per user.
C6_StaggerWithinInterval ==
    (stagger /\ pc # "main") =>
      /\ pc = "running" => DOMAIN staggerBy = 1..users
      /\ \A i \in DOMAIN staggerBy : staggerBy[i] \in 1..interval

\* two users with different delays, at both ends of the range
C6_Witness ==
    /\ stagger
    /\ \E i, j \in DOMAIN staggerBy :
         i < j /\ staggerBy[i] = interval /\ staggerBy[j] = 1

FirstTickOf(j) == \A i \in 1..(j - 1) : ticks[i].user # ticks[j].user

\* C7: without --stagger every delay is 0, every first tick is at time 0,
\* and no user issues a second tick before each user has issued its first.
C7_FirstTicksTogether ==
    (~stagger /\ pc # "main") =>
      /\ \A u \in DOMAIN staggerBy : staggerBy[u] = 0
      /\ \A j \in 1..Len(ticks) :
           IF FirstTickOf(j)
           THEN ticks[j].at = 0
           ELSE \A u \in 1..users : \E i \in 1..(j - 1) : ticks[i].user = u

C7_Witness ==
    /\ ~stagger
    /\ users = 2
    /\ \E j \in 1..Len(ticks) : ~FirstTickOf(j)
    /\ \A u \in 1..users : staggerBy[u] = 0

Latencies(i) == [k \in 1..Len(runs[i].value) |-> runs[i].value[k].responseTime]

Codes(i) == [k \in 1..Len(runs[i].value) |-> runs[i].value[k].responseCode]

RECURSIVE SumTo(_, _)
SumTo(seq, k) == IF k = 0 THEN 0 ELSE SumTo(seq, k - 1) + seq[k]

\* a is sum / count rounded to the nearest integer, halves up
RoundsHalfUp(a, sum, count) ==
    2 * count * a <= 2 * sum + count /\ 2 * sum + count < 2 * count * (a + 1)

\* C8: each printed section is that of one store key, in key order; its
\* minimum and maximum are the smallest and the largest latency of the key's
\* records and its average is their sum over their count, rounded to the
\* nearest integer with halves up: [10,20,30] gives 20, 10, 30 and [10,11]
\* gives 11.
C8_LatencySummary ==
    \A r \in 1..Len(reportOut) :
      /\ Len(reportOut[r]) = Len(runs)
      /\ \A i \in 1..Len(runs) :
           LET section == reportOut[r][i]
               lat == Latencies(i)
           IN  /\ section.name = runs[i].key
               /\ Len(lat) > 0
               /\ \E k \in 1..Len(lat) : lat[k] = section.minimum
               /\ \A k \in 1..Len(lat) : section.minimum <= lat[k]
               /\ \E k \in 1..Len(lat) : lat[k] = section.maximum
               /\ \A k \in 1..Len(lat) : lat[k] <= section.maximum
               /\ RoundsHalfUp(section.average, SumTo(lat, Len(lat)), Len(lat))
               /\ lat = << 10, 20, 30 >> =>
                    section.average = 20 /\ section.minimum = 10 /\ section.maximum = 30
               /\ lat = << 10, 11 >> => section.average = 11

\* a report printed from a store holding the latencies 10, 11 under one
\* name and 10, 20 under another
C8_Witness ==
    /\ Len(reportOut) = 1
    /\ Len(runs) = 2
    /\ Latencies(1) = << 10, 11 >>
    /\ Latencies(2) = << 10, 20 >>
    /\ reportOut[1][1].average = 11
    /\ reportOut[1][2].average = 15

CountOf(seq, x) == Cardinality({ k \in 1..Len(seq) : seq[k] = x })

\* C9: the histogram printed for a name has one line for each status code
\* that occurs in the name's records, with the number of records of that
\* code, and no other line, so the counts add up to the record count;
\* [200,200,404,200,500] gives 200: 3, 404: 1, 500: 1.
C9_StatusHistogram ==
    \A r \in 1..Len(reportOut) :
      \A i \in 1..Len(runs) :
        LET lines == reportOut[r][i].codes
            codes == Codes(i)
        IN  /\ \A a, b \in 1..Len(lines) : lines[a].code = lines[b].code => a = b
            /\ \A a \in 1..Len(lines) :
                 /\ lines[a].count = CountOf(codes, lines[a].code)
                 /\ lines[a].count > 0
            /\ \A k \in 1..Len(codes) : \E a \in 1..Len(lines) : lines[a].code = codes[k]
            /\ SumTo([a \in 1..Len(lines) |-> lines[a].count], Len(lines)) = Len(codes)
            /\ codes = << 200, 200, 404, 200, 500 >> =>
                 [a \in 1..Len(lines) |-> << lines[a].code, lines[a].count >>]
                   = << << 200, 3 >>, << 404, 1 >>, << 500, 1 >> >>

C9_Witness ==
    /\ Len(reportOut) = 1
    /\ Codes(1) = << 200, 200, 404, 200, 500 >>
    /\ Len(reportOut[1][1].codes) = 3
    /\ reportOut[1][1].codes[1].count = 3

\* the variables runCollection builds when the data file gave requests
ExpectedValue(name, userNumber) ==
    LET first == CHOOSE j \in 1..Len(requests) :
                   /\ requests[j].name = name
                   /\ \A k \in 1..(j - 1) : requests[k].name # name
        bodies == requests[first].bodies
    IN  JSONStringify(bodies[((userNumber - 1) % Len(bodies)) + 1])

\* C10: with a request-body set loaded, every tick of user userIndex carries,
\* for each collection item at position p whose name has a data entry, the
\* variable requestBody{p} holding (as JSON text) that entry's body at index
\* (userIndex - 1) mod bodyCount, in item order, and nothing for the other
\* items; with the two bodies of "Create", users 1 and 3 get the first and
\* user 2 the second.
C10_BodyRotation ==
    \A t \in 1..Len(ticks) :
      LET items == fileSystem.collection.item
          envVar == ticks[t].envVar
          matched == { p \in 1..Len(items) :
                         \E j \in 1..Len(requests) : requests[j].name = items[p] }
      IN  /\ Len(envVar) = Cardinality(matched)
          /\ \A a, b \in 1..Len(envVar) : a < b =>
               \E p, q \in matched :
                 /\ p < q
                 /\ envVar[a].key = "requestBody" \o ToString(p)
                 /\ envVar[b].key = "requestBody" \o ToString(q)
          /\ \A a \in 1..Len(envVar) :
               \E p \in matched :
                 /\ envVar[a].key = "requestBody" \o ToString(p)
                 /\ envVar[a].value = ExpectedValue(items[p], ticks[t].user)
          /\ (requests = MixedBodies /\ items = << "Create" >> /\ ticks[t].user \in {1, 3}) =>
               envVar = << [key |-> "requestBody1", value |-> "{\"id\":1}"] >>
          /\ (requests = MixedBodies /\ items = << "Create" >> /\ ticks[t].user = 2) =>
               envVar = << [key |-> "requestBody1", value |-> "{\"id\":2}"] >>

\* users 1, 2 and 3 have each issued a tick with the two bodies of "Create"
\* loaded: the first body for users 1 and 3, the second for user 2
C10_Witness ==
    /\ requests = MixedBodies
    /\ fileSystem.collection.item = << "Create" >>
    /\ \A u \in 1..3 :
         \E t \in 1..Len(ticks) :
           /\ ticks[t].user = u
           /\ ticks[t].envVar =
                << [key |-> "requestBody1",
                    value |-> IF u = 2 THEN "{\"id\":2}" ELSE "{\"id\":1}"] >>

IsPrefix(s, t) == Len(s) <= Len(t) /\ \A k \in 1..Len(s) : t[k] = s[k]

\* C11: in every step the store keeps its keys in place and the sequence of
\* each key keeps its records as a prefix of its new contents: nothing is
\* removed, reordered or modified.
C11_StoreOnlyGrows ==
    [][/\ Len(runs) <= Len(runs')
       /\ \A i \in 1..Len(runs) :
            /\ runs'[i].key = runs[i].key
            /\ IsPrefix(runs[i].value, runs'[i].value)]_vars

\* two keys, each with records of two completions
C11_Witness ==
    /\ Len(runs) = 2
    /\ Len(runs[1].value) >= 2
    /\ Len(runs[2].value) >= 2
    /\ Len(completions) >= 2

\* C12: once the deadline has fired the process has ended with exit code 0;
\* without --report nothing was printed, with --report exactly one summary
\* was printed, with one section per key of the store as it was when the
\* deadline fired, counting every record of the key; no summary is printed
\* before the deadline.
C12_DeadlineEndsTheRun ==
    IF deadlineFired
    THEN /\ pc = "exited"
         /\ exitCode = 0
         /\ \A i \in 1..Len(completions) : ~completions[i].result.error
         /\ IF report
            THEN /\ Len(reportOut) = 1
                 /\ Len(reportOut[1]) = Len(runs)
                 /\ \A i \in 1..Len(runs) :
                      /\ reportOut[1][i].name = runs[i].key
                      /\ SumTo([a \in 1..Len(reportOut[1][i].codes) |->
                                  reportOut[1][i].codes[a].count],
                               Len(reportOut[1][i].codes)) = Len(runs[i].value)
            ELSE reportOut = << >>
    ELSE reportOut = << >> /\ exitCode # 0

\* the summary was printed once at the deadline while an execution was
\* still in flight
C12_Witness ==
    /\ deadlineFired
    /\ report
    /\ Len(reportOut) = 1
    /\ Len(reportOut[1]) = 2
    /\ inFlight # {}

DataLoadFails == data # "" /\ ~fileSystem.data.ok

\* C13: with --users 0 no user timer exists and no tick is issued; once the
\* main script has run only the deadline timer is armed, the store is empty
\* when it fires, the summary (with --report) has zero sections, and the
\* process ends with exit code 0 unless the data file failed to load.
C13_NoUsers ==
    users = 0 =>
      /\ userTimers = << >>
      /\ staggerBy = << >>
      /\ executionCount = 0
      /\ ticks = << >>
      /\ inFlight = {}
      /\ runs = << >>
      /\ pc = "running" => deadlineTimer = totalTime
      /\ (pc = "exited" /\ ~DataLoadFails) =>
           /\ deadlineFired
           /\ exitCode = 0
           /\ now = totalTime
           /\ reportOut = IF report THEN << << >> >> ELSE << >>

C13_Witness ==
    /\ users = 0
    /\ deadlineFired
    /\ report
    /\ reportOut = << << >> >>
    /\ exitCode = 0

\* C14: when the data file given with --data fails to load, the main script
\* ends the process with a non-zero exit code: the deadline timer is never
\* armed, no user timer exists and no execution is ever issued.
C14_DataLoadErrorIsFatal ==
    (DataLoadFails /\ pc # "main") =>
      /\ pc = "exited"
      /\ exitCode > 0
      /\ deadlineTimer = NoTimer
      /\ ~deadlineFired
      /\ userTimers = << >>
      /\ executionCount = 0
      /\ ticks = << >>
      /\ inFlight = {}
      /\ runs = << >>
      /\ reportOut = << >>

C14_Witness ==
    /\ DataLoadFails
    /\ users > 1
    /\ report
    /\ pc = "exited"
    /\ exitCode = 1

\* C15: a printed histogram line is flagged success exactly when its status
\* code is 200; every other code, 201 included, is flagged error.
C15_OnlyTwoHundredIsSuccess ==
    \A r \in 1..Len(reportOut) :
      \A i \in 1..Len(reportOut[r]) :
        \A a \in 1..Len(reportOut[r][i].codes) :
          LET line == reportOut[r][i].codes[a]
          IN  /\ line.flag \in { "success", "error" }
              /\ line.flag = "success" <=> line.code = 200
              /\ line.code = 201 => line.flag = "error"

\* a printed histogram with a 200 line and a 201 line
C15_Witness ==
    /\ Len(reportOut) = 1
    /\ \E a, b \in 1..Len(reportOut[1][1].codes) :
         /\ reportOut[1][1].codes[a].code = 200
         /\ reportOut[1][1].codes[a].flag = "success"
         /\ reportOut[1][1].codes[b].code = 201
         /\ reportOut[1][1].codes[b].flag = "error"

\* C16: the i-th tick of a user is at its stagger delay plus (i - 1)
\* intervals, so none is before the delay and consecutive ticks are one
\* interval apart; the repeating timer is armed by the callback that issues
\* the first tick and always stands one interval after the last tick; a user
\* whose delay is not before totalTime issues no tick and has no record.
C16_UserCadence ==
    \A u \in DOMAIN userTimers :
      LET mine == TickTimes(u)
      IN  /\ \A i \in 1..Len(mine) : mine[i] = staggerBy[u] + (i - 1) * interval
          /\ userTimers[u].kind = "stagger" => (mine = << >> /\ userTimers[u].at = staggerBy[u])
          /\ userTimers[u].kind = "interval" =>
               (Len(mine) >= 1 /\ userTimers[u].at = mine[Len(mine)] + interval)
          /\ Len(mine) >= 1 => userTimers[u].kind = "interval"
          /\ staggerBy[u] >= totalTime =>
               /\ mine = << >>
               /\ \A k \in 1..Len(appendLog) : ticks[appendLog[k].count].user # u

\* a user staggered by a whole interval has ticked at one and at two
\* intervals when the deadline fires
C16_Witness ==
    /\ stagger
    /\ deadlineFired
    /\ \E u \in DOMAIN userTimers :
         /\ staggerBy[u] = interval
         /\ TickTimes(u) = << interval, 2 * interval >>
         /\ userTimers[u].at = 3 * interval

InFlightOf(u) == { c \in inFlight : ticks[c].user = u }

\* C17: a user's timer that is due fires whatever the user has in flight:
\* the tick is issued on the interval whether or not earlier executions have
\* completed, so executions of one user overlap and their number is not
\* limited.
C17_NoBackpressure ==
    /\ \A u \in 1..users :
         UserTimerDue(u) => (ENABLED initializeInterval(u) \/ ENABLED IntervalTick(u))
    /\ \A u \in 1..users :
         (deadlineFired /\ completions = << >> /\ fileSystem.collection.ok) =>
            Cardinality(InFlightOf(u)) = Len(TickTimes(u))

\* three executions of one user in flight at once, a fourth tick due
C17_Witness ==
    /\ pc = "running"
    /\ \E u \in 1..users :
         /\ Cardinality(InFlightOf(u)) >= 3
         /\ userTimers[u].kind = "interval"
         /\ UserTimerDue(u)

\* the records a list of completions appends under a name, run by run in
\* the order of the list and entry by entry in the order of each summary
RECURSIVE CompletedUnder(_, _)
CompletedUnder(name, k) ==
    IF k = 0
    THEN << >>
    ELSE LET result == completions[k].result
             upTo == IF \E i \in 1..Len(result.executions) :
                          result.executions[i].response = NoResponse
                     THEN (CHOOSE i \in 1..Len(result.executions) :
                             /\ result.executions[i].response = NoResponse
                             /\ \A j \in 1..(i - 1) :
                                  result.executions[j].response # NoResponse) - 1
                     ELSE Len(result.executions)
             mine == SelectSeq(SubSeq(result.executions, 1, upTo),
                               LAMBDA e : e.name = name)
         IN  CompletedUnder(name, k - 1)
             \o [i \in 1..Len(mine) |->
                   [responseCode |-> mine[i].response.code,
                    responseTime |-> mine[i].response.responseTime]]

\* C18: the sequence of a request name holds the records of the executions
\* in the order in which their callbacks ran, whatever the order of issue,
\* and the records of one execution stand together in the order of its run
\* summary.
C18_CompletionOrder ==
    /\ \A name \in Names :
         IF MapHas(runs, name)
         THEN MapGet(runs, name) = CompletedUnder(name, Len(completions))
         ELSE CompletedUnder(name, Len(completions)) = << >>
    /\ \A i, j \in 1..Len(appendLog) :
         (i < j /\ appendLog[i].count = appendLog[j].count) =>
            \A k \in i..j : appendLog[k].count = appendLog[i].count

\* the second execution completed before the first: its two records, in
\* summary order and with different answers, precede those of the first
C18_Witness ==
    /\ fileSystem.collection.item = << "Get", "Get" >>
    /\ Len(runs) = 1
    /\ [k \in 1..Len(appendLog) |-> appendLog[k].count] = << 2, 2, 1, 1 >>
    /\ [k \in 1..4 |-> runs[1].value[k].responseCode] = << 200, 404, 404, 200 >>

\* C19: the store changes only in the completion callback of a run that
\* reported no error, and such a completion appends exactly one record for
\* every execution entry of its run summary.
C19_OneRecordPerEntry ==
    [][/\ (runs' # runs \/ appendLog' # appendLog) =>
             /\ Len(completions') = Len(completions) + 1
             /\ ~completions'[Len(completions')].result.error
       /\ (/\ Len(completions') = Len(completions) + 1
           /\ ~completions'[Len(completions')].result.error) =>
             Len(appendLog') - Len(appendLog) =
                Len(completions'[Len(completions')].result.executions)]_vars

=============================================================================
